---- MODULE Spec2Model ----
(***************************************************************************)
(* Model of olgm.herald.Layers (src/src/herald/layersherald.js): the       *)
(* herald that watches the layers of an OpenLayers map, keeps the Google   *)
(* layer cache and the vector layer cache, and swaps the Google Maps map   *)
(* in and out of the OpenLayers map target.                                *)
(*                                                                         *)
(* Every handler of the herald runs to completion (single-threaded event  *)
(* loop), so each action below is one whole handler.  The handlers are     *)
(* written as functions from a state record to a state record, composed   *)
(* in the order the JavaScript calls them.                                 *)
(***************************************************************************)
EXTENDS Integers, Sequences, FiniteSets, TLC

\* ----------------------------------------------------------------- bounds
\* Longest layer collection of the ol3 map that is explored.
MaxLayers == 3
\* Most cache items that exist at once for one layer (a layer is watched
\* again by every further activate() and by every further 'add' listener).
MaxWatch == 2

\* ------------------------------------------------------------- the layers
GoogleLayers == {"G1", "G2"}          \* instances of olgm.layer.Google
VectorLayers == {"V1", "V2", "VN"}    \* instances of ol.layer.Vector
OtherLayers == {"T"}                  \* any other ol.layer.Base
Layers == GoogleLayers \cup VectorLayers \cup OtherLayers
\* layers whose 'change:visible' event is explored
VisLayers == {"G1", "G2", "V1", "V2"}
None == "none"
\* The applications that are explored: the layers the application creates
\* and how many activate() calls it may have outstanding (calls not yet
\* answered by a deactivate()).  Repeated activate() calls multiply the
\* cache items, so they are explored on the smallest set of layers that
\* has a layer of each cache.
Applications ==
  {[pool |-> {"G1", "G2", "V1"}, activations |-> 1],
   [pool |-> {"G1", "V1", "V2"}, activations |-> 1],
   [pool |-> {"G1", "V1", "VN", "T"}, activations |-> 1],
   [pool |-> {"G1", "V1"}, activations |-> MaxWatch]}

\* layer.getSource(): VN is a vector layer without a source
getSource(l) == l \in {"V1", "V2"}
\* layer.getMapTypeId() of a Google layer
getMapTypeId(l) == IF l = "G1" THEN "roadmap" ELSE "satellite"
\* layer.getStyles() of a Google layer: G1 has custom styles, G2 has none
getStyles(l) == IF l = "G1" THEN "stylesG1" ELSE None
\* layer.getOpacity() of each layer before the herald touches it (tenths)
InitialOpacity(l) == IF l = "V1" THEN 8 ELSE IF l = "V2" THEN 5 ELSE 10

\* the DOM elements
ol3mapEl == "ol3mapEl"                \* ol3map.getViewport()
gmapEl == "gmapEl"                    \* gmap.getDiv()
otherControl == "otherControl"        \* a control some other party put in TOP_LEFT

VARIABLES
  pool,                 \* the layers the application has created
  activations,          \* the activate() calls the application may have outstanding
  layers,               \* ol3map.getLayers().getArray()
  visible,              \* layer.getVisible(), per layer
  opacity,              \* layer.getOpacity(), per vector layer
  center,               \* ol3map.getView().getCenter() is defined
  centerOnce,           \* the once('change:center') listener is registered
  postrenderOnce,       \* the once('postrender') listener is registered
  postrenderFired,      \* the ol3 map has dispatched 'postrender' at least once
  watchVector_,
  googleLayers_,
  googleCache_,
  vectorLayers_,
  vectorCache_,
  googleKeys,           \* live 'change:visible' keys of Google cache items
  vectorKeys,           \* live 'change:visible' keys of vector cache items, in order
  heraldActive,         \* cache items whose olgm.herald.VectorSource is active
  dataMap,              \* cache items whose google.maps.Data has map = gmap
  listenerKeys,         \* number of ('add', 'remove') listener pairs of the herald
  googleMapsIsActive_,
  ol3mapIsRenderered_,
  viewHeraldActive,     \* this.viewHerald_ is activated
  targetEl,             \* children of this.targetEl_
  controls,             \* gmap.controls[TOP_LEFT]
  mapTypeId,            \* gmap's map type id
  styles,               \* gmap's 'styles' option
  toggled,              \* the last handler ran toggleGoogleMaps_
  swaps                 \* DOM swaps (activations + deactivations) done by the last handler

vars == <<pool, activations, layers, visible, opacity, center, centerOnce, postrenderOnce,
          postrenderFired, watchVector_, googleLayers_, googleCache_,
          vectorLayers_, vectorCache_, googleKeys, vectorKeys, heraldActive,
          dataMap, listenerKeys, googleMapsIsActive_, ol3mapIsRenderered_,
          viewHeraldActive, targetEl, controls, mapTypeId, styles, toggled,
          swaps>>

\* The state as one record, the form the handlers work on.
Cur ==
  [layers |-> layers, visible |-> visible, opacity |-> opacity,
   center |-> center, centerOnce |-> centerOnce,
   postrenderOnce |-> postrenderOnce, postrenderFired |-> postrenderFired,
   watchVector_ |-> watchVector_,
   googleLayers_ |-> googleLayers_, googleCache_ |-> googleCache_,
   vectorLayers_ |-> vectorLayers_, vectorCache_ |-> vectorCache_,
   googleKeys |-> googleKeys, vectorKeys |-> vectorKeys,
   heraldActive |-> heraldActive, dataMap |-> dataMap,
   listenerKeys |-> listenerKeys,
   googleMapsIsActive_ |-> googleMapsIsActive_,
   ol3mapIsRenderered_ |-> ol3mapIsRenderered_,
   viewHeraldActive |-> viewHeraldActive, targetEl |-> targetEl,
   controls |-> controls, mapTypeId |-> mapTypeId, styles |-> styles,
   toggled |-> FALSE, swaps |-> 0]

Commit(s) ==
  /\ pool' = pool
  /\ activations' = activations
  /\ layers' = s.layers
  /\ visible' = s.visible
  /\ opacity' = s.opacity
  /\ center' = s.center
  /\ centerOnce' = s.centerOnce
  /\ postrenderOnce' = s.postrenderOnce
  /\ postrenderFired' = s.postrenderFired
  /\ watchVector_' = s.watchVector_
  /\ googleLayers_' = s.googleLayers_
  /\ googleCache_' = s.googleCache_
  /\ vectorLayers_' = s.vectorLayers_
  /\ vectorCache_' = s.vectorCache_
  /\ googleKeys' = s.googleKeys
  /\ vectorKeys' = s.vectorKeys
  /\ heraldActive' = s.heraldActive
  /\ dataMap' = s.dataMap
  /\ listenerKeys' = s.listenerKeys
  /\ googleMapsIsActive_' = s.googleMapsIsActive_
  /\ ol3mapIsRenderered_' = s.ol3mapIsRenderered_
  /\ viewHeraldActive' = s.viewHeraldActive
  /\ targetEl' = s.targetEl
  /\ controls' = s.controls
  /\ mapTypeId' = s.mapTypeId
  /\ styles' = s.styles
  /\ toggled' = s.toggled
  /\ swaps' = s.swaps

\* ------------------------------------------------------- array helpers
\* Array.prototype.indexOf, 1-based; 0 stands for JavaScript's -1.
indexOf(seq, x) ==
  IF \E i \in 1..Len(seq) : seq[i] = x
  THEN CHOOSE i \in 1..Len(seq) : seq[i] = x /\ \A j \in 1..(i - 1) : seq[j] # x
  ELSE 0

\* Array.prototype.splice(index, 1), 1-based; out of range removes nothing.
splice(seq, i) ==
  IF i \in 1..Len(seq)
  THEN [j \in 1..(Len(seq) - 1) |-> IF j < i THEN seq[j] ELSE seq[j + 1]]
  ELSE seq

\* The identity of a cache item object: its layer and a number that tells
\* it from the other live items of the same layer.
ItemId(item) == <<item.layer, item.id>>

\* The numbers of the items of layer l that are still referenced somewhere.
UsedIds(s, l) ==
  {n \in 1..(MaxWatch + 1) :
     \/ \E i \in 1..Len(s.googleCache_) : ItemId(s.googleCache_[i]) = <<l, n>>
     \/ \E i \in 1..Len(s.vectorCache_) : ItemId(s.vectorCache_[i]) = <<l, n>>
     \/ \E i \in 1..Len(s.vectorKeys) : ItemId(s.vectorKeys[i]) = <<l, n>>
     \/ <<l, n>> \in s.googleKeys
     \/ <<l, n>> \in s.heraldActive
     \/ <<l, n>> \in s.dataMap}

\* A new object: the smallest number no live item of the layer carries.
NewId(s, l) ==
  CHOOSE n \in 1..(MaxWatch + 1) :
    /\ n \notin UsedIds(s, l)
    /\ \A m \in 1..(n - 1) : m \in UsedIds(s, l)

\* -------------------------------------------------- vector cache items
activateVectorLayerCacheItem_(s, cacheItem) ==
  IF s.visible[cacheItem.layer] /\ s.googleMapsIsActive_
  THEN [s EXCEPT !.heraldActive = @ \cup {ItemId(cacheItem)},
                 !.opacity[cacheItem.layer] = 0]
  ELSE s

deactivateVectorLayerCacheItem_(s, cacheItem) ==
  [s EXCEPT !.heraldActive = @ \ {ItemId(cacheItem)},
            !.opacity[cacheItem.layer] = cacheItem.opacity]

\* Fault: a visibility handler that deactivates the first item of the
\* vector cache, not the item the listener was bound to.
handleVectorLayerVisibleChange_FirstItem(s, cacheItem) ==
  IF s.visible[cacheItem.layer]
  THEN activateVectorLayerCacheItem_(s, cacheItem)
  ELSE deactivateVectorLayerCacheItem_(s, s.vectorCache_[1])

handleVectorLayerVisibleChange_(s, cacheItem) ==
  IF s.visible[cacheItem.layer]
  THEN activateVectorLayerCacheItem_(s, cacheItem)
  ELSE deactivateVectorLayerCacheItem_(s, cacheItem)

\* this.vectorCache_.forEach(this.activateVectorLayerCacheItem_, this)
RECURSIVE activateAll(_, _)
activateAll(s, items) ==
  IF items = <<>> THEN s
  ELSE activateAll(activateVectorLayerCacheItem_(s, Head(items)), Tail(items))

\* this.vectorCache_.forEach(this.deactivateVectorLayerCacheItem_, this)
RECURSIVE deactivateAll(_, _)
deactivateAll(s, items) ==
  IF items = <<>> THEN s
  ELSE deactivateAll(deactivateVectorLayerCacheItem_(s, Head(items)), Tail(items))

\* ------------------------------------------------ the Google Maps switch
\* Fault: activateGoogleMaps_ without the ol3mapIsRenderered_ test.
activateGoogleMaps_NoRenderGate(s) ==
  IF s.googleMapsIsActive_ \/ ~s.center
  THEN s
  ELSE LET s1 == [s EXCEPT !.targetEl = (@ \ {ol3mapEl}) \cup {gmapEl},
                           !.controls = Append(@, ol3mapEl),
                           !.viewHeraldActive = TRUE,
                           !.googleMapsIsActive_ = TRUE,
                           !.swaps = @ + 1]
       IN activateAll(s1, s1.vectorCache_)

\* Fault: activateGoogleMaps_ without the googleMapsIsActive_ test.
activateGoogleMaps_NoActiveGuard(s) ==
  IF ~s.ol3mapIsRenderered_ \/ ~s.center
  THEN s
  ELSE LET s1 == [s EXCEPT !.targetEl = (@ \ {ol3mapEl}) \cup {gmapEl},
                           !.controls = Append(@, ol3mapEl),
                           !.viewHeraldActive = TRUE,
                           !.googleMapsIsActive_ = TRUE,
                           !.swaps = @ + 1]
       IN activateAll(s1, s1.vectorCache_)

activateGoogleMaps_(s) ==
  IF s.googleMapsIsActive_ \/ ~s.ol3mapIsRenderered_ \/ ~s.center
  THEN s
  ELSE LET s1 == [s EXCEPT !.targetEl = (@ \ {ol3mapEl}) \cup {gmapEl},
                           !.controls = Append(@, ol3mapEl),
                           !.viewHeraldActive = TRUE,
                           !.googleMapsIsActive_ = TRUE,
                           !.swaps = @ + 1]
       IN activateAll(s1, s1.vectorCache_)

\* Fault: deactivateGoogleMaps_ without targetEl_.removeChild(gmapEl_).
deactivateGoogleMaps_KeepsGmap(s) ==
  IF ~s.googleMapsIsActive_
  THEN s
  ELSE LET s1 == [s EXCEPT !.controls = splice(@, 1),
                           !.targetEl = @ \cup {ol3mapEl},
                           !.viewHeraldActive = FALSE,
                           !.swaps = @ + 1]
           s2 == deactivateAll(s1, s1.vectorCache_)
       IN [s2 EXCEPT !.googleMapsIsActive_ = FALSE]

deactivateGoogleMaps_(s) ==
  IF ~s.googleMapsIsActive_
  THEN s
  ELSE LET s1 == [s EXCEPT !.controls = splice(@, 1),
                           !.targetEl = (@ \ {gmapEl}) \cup {ol3mapEl},
                           !.viewHeraldActive = FALSE,
                           !.swaps = @ + 1]
           s2 == deactivateAll(s1, s1.vectorCache_)
       IN [s2 EXCEPT !.googleMapsIsActive_ = FALSE]

\* getArray().slice(0).reverse().every(...): the layers are visited from
\* the last one down, and the visit stops at the first Google layer that
\* is visible and in googleLayers_.  None when the visit finds none.
RECURSIVE every(_, _)
every(s, i) ==
  IF i = 0 THEN None
  ELSE IF /\ s.layers[i] \in GoogleLayers
          /\ s.visible[s.layers[i]]
          /\ indexOf(s.googleLayers_, s.layers[i]) # 0
       THEN s.layers[i]
       ELSE every(s, i - 1)

\* Fault: the visit without reverse(), from the first layer up.
RECURSIVE everyForward(_, _)
everyForward(s, i) ==
  IF i > Len(s.layers) THEN None
  ELSE IF /\ s.layers[i] \in GoogleLayers
          /\ s.visible[s.layers[i]]
          /\ indexOf(s.googleLayers_, s.layers[i]) # 0
       THEN s.layers[i]
       ELSE everyForward(s, i + 1)

foundBottomMost(s) == everyForward(s, 1)

found(s) == every(s, Len(s.layers))

\* Fault: a toggle that tears the Google Maps map down before it applies
\* the layer that was found.
toggleGoogleMaps_Remount(s) ==
  LET f == found(s)
      t == deactivateGoogleMaps_([s EXCEPT !.toggled = TRUE])
  IN IF f # None
     THEN activateGoogleMaps_([t EXCEPT !.mapTypeId = getMapTypeId(f),
                                        !.styles = getStyles(f)])
     ELSE t

toggleGoogleMaps_(s) ==
  LET f == found(s)
      t == [s EXCEPT !.toggled = TRUE]
  IN IF f # None
     THEN activateGoogleMaps_([t EXCEPT !.mapTypeId = getMapTypeId(f),
                                        !.styles = getStyles(f)])
     ELSE deactivateGoogleMaps_(t)

\* ------------------------------------------------------ watch / unwatch
watchGoogleLayer_(s, layer) ==
  LET item == [layer |-> layer, id |-> NewId(s, layer)]
  IN toggleGoogleMaps_([s EXCEPT !.googleLayers_ = Append(@, layer),
                                 !.googleCache_ = Append(@, item),
                                 !.googleKeys = @ \cup {ItemId(item)}])

watchVectorLayer_(s, layer) ==
  IF ~getSource(layer)
  THEN s
  ELSE LET cacheItem == [layer |-> layer, id |-> NewId(s, layer),
                         opacity |-> s.opacity[layer]]
           s1 == [s EXCEPT !.vectorLayers_ = Append(@, layer),
                           !.dataMap = @ \cup {ItemId(cacheItem)},
                           !.vectorKeys = Append(@, cacheItem)]
           s2 == activateVectorLayerCacheItem_(s1, cacheItem)
       IN [s2 EXCEPT !.vectorCache_ = Append(@, cacheItem)]

\* Fault: watchLayer_ without the '&& this.watchVector_' test.
watchLayer_IgnoresFlag(s, layer) ==
  IF layer \in GoogleLayers THEN watchGoogleLayer_(s, layer)
  ELSE IF layer \in VectorLayers THEN watchVectorLayer_(s, layer)
  ELSE s

watchLayer_(s, layer) ==
  IF layer \in GoogleLayers THEN watchGoogleLayer_(s, layer)
  ELSE IF layer \in VectorLayers /\ s.watchVector_ THEN watchVectorLayer_(s, layer)
  ELSE s

\* olgm.unlistenAllByKey(cacheItem.listenerKeys) of a vector cache item
unlistenVector(keys, cacheItem) ==
  SelectSeq(keys, LAMBDA k : ItemId(k) # ItemId(cacheItem))

\* Fault: unwatchGoogleLayer_ with toggleGoogleMaps_ outside the
\* 'index !== -1' block.
unwatchGoogleLayer_AlwaysToggles(s, layer) ==
  LET index == indexOf(s.googleLayers_, layer)
  IN IF index # 0
     THEN LET cacheItem == s.googleCache_[index]
          IN toggleGoogleMaps_(
               [s EXCEPT !.googleLayers_ = splice(@, index),
                         !.googleKeys = @ \ {ItemId(cacheItem)},
                         !.googleCache_ = splice(@, index)])
     ELSE toggleGoogleMaps_(s)

unwatchGoogleLayer_(s, layer) ==
  LET index == indexOf(s.googleLayers_, layer)
  IN IF index # 0
     THEN LET cacheItem == s.googleCache_[index]
          IN toggleGoogleMaps_(
               [s EXCEPT !.googleLayers_ = splice(@, index),
                         !.googleKeys = @ \ {ItemId(cacheItem)},
                         !.googleCache_ = splice(@, index)])
     ELSE s

\* Fault: unwatchVectorLayer_ without this.vectorCache_.splice(index, 1).
unwatchVectorLayer_KeepsItem(s, layer) ==
  LET index == indexOf(s.vectorLayers_, layer)
  IN IF index # 0
     THEN LET cacheItem == s.vectorCache_[index]
          IN [s EXCEPT !.vectorLayers_ = splice(@, index),
                       !.vectorKeys = unlistenVector(@, cacheItem),
                       !.dataMap = @ \ {ItemId(cacheItem)},
                       !.heraldActive = @ \ {ItemId(cacheItem)},
                       !.opacity[layer] = cacheItem.opacity]
     ELSE s

\* Fault: unwatchVectorLayer_ without
\* olgm.unlistenAllByKey(cacheItem.listenerKeys).
unwatchVectorLayer_KeepsKey(s, layer) ==
  LET index == indexOf(s.vectorLayers_, layer)
  IN IF index # 0
     THEN LET cacheItem == s.vectorCache_[index]
          IN [s EXCEPT !.vectorLayers_ = splice(@, index),
                       !.dataMap = @ \ {ItemId(cacheItem)},
                       !.heraldActive = @ \ {ItemId(cacheItem)},
                       !.opacity[layer] = cacheItem.opacity,
                       !.vectorCache_ = splice(@, index)]
     ELSE s

unwatchVectorLayer_(s, layer) ==
  LET index == indexOf(s.vectorLayers_, layer)
  IN IF index # 0
     THEN LET cacheItem == s.vectorCache_[index]
          IN [s EXCEPT !.vectorLayers_ = splice(@, index),
                       !.vectorKeys = unlistenVector(@, cacheItem),
                       !.dataMap = @ \ {ItemId(cacheItem)},
                       !.heraldActive = @ \ {ItemId(cacheItem)},
                       !.opacity[layer] = cacheItem.opacity,
                       !.vectorCache_ = splice(@, index)]
     ELSE s

unwatchLayer_(s, layer) ==
  IF layer \in GoogleLayers THEN unwatchGoogleLayer_(s, layer)
  ELSE IF layer \in VectorLayers /\ s.watchVector_ THEN unwatchVectorLayer_(s, layer)
  ELSE s

\* layers.forEach(this.watchLayer_, this)
RECURSIVE watchEach(_, _)
watchEach(s, ls) ==
  IF ls = <<>> THEN s ELSE watchEach(watchLayer_(s, Head(ls)), Tail(ls))

\* this.ol3map.getLayers().forEach(this.unwatchLayer_, this)
RECURSIVE unwatchEach(_, _)
unwatchEach(s, ls) ==
  IF ls = <<>> THEN s ELSE unwatchEach(unwatchLayer_(s, Head(ls)), Tail(ls))

\* ------------------------------------------------------ herald lifecycle
activate(s) ==
  LET s1 == watchEach(s, s.layers)
  IN [s1 EXCEPT !.listenerKeys = @ + 1]

\* olgm.herald.Herald.prototype.deactivate: releases this.listenerKeys
baseDeactivate(s) == [s EXCEPT !.listenerKeys = 0]

deactivate(s) == baseDeactivate(unwatchEach(s, s.layers))

\* One collection event reaches every registered listener of the herald.
RECURSIVE handleLayersAdd_(_, _, _)
handleLayersAdd_(s, layer, n) ==
  IF n = 0 THEN s ELSE handleLayersAdd_(watchLayer_(s, layer), layer, n - 1)

RECURSIVE handleLayersRemove_(_, _, _)
handleLayersRemove_(s, layer, n) ==
  IF n = 0 THEN s ELSE handleLayersRemove_(unwatchLayer_(s, layer), layer, n - 1)

\* layer 'change:visible' reaches every live listener on that layer:
\* toggleGoogleMaps_ once per live Google key of the layer ...
RECURSIVE fireGoogleVisible(_, _)
fireGoogleVisible(s, n) ==
  IF n = 0 THEN s ELSE fireGoogleVisible(toggleGoogleMaps_(s), n - 1)

\* ... and handleVectorLayerVisibleChange_ bound to each cache item, in the
\* order the listeners were registered.
RECURSIVE fireVectorVisible(_, _, _)
fireVectorVisible(s, layer, keys) ==
  IF keys = <<>> THEN s
  ELSE fireVectorVisible(
         IF Head(keys).layer = layer
         THEN handleVectorLayerVisibleChange_(s, Head(keys)) ELSE s,
         layer, Tail(keys))

\* --------------------------------------------------------------- actions
\* The number of cache items of layer l that are alive.
Watched(l) == Cardinality(UsedIds(Cur, l))

Init ==
  /\ \E a \in Applications : pool = a.pool /\ activations = a.activations
  /\ layers = <<>>
  /\ visible = [l \in VisLayers |-> TRUE]
  /\ opacity = [l \in VectorLayers |-> InitialOpacity(l)]
  /\ center \in BOOLEAN
  /\ centerOnce = ~center
  /\ postrenderOnce = center
  /\ postrenderFired = FALSE
  /\ watchVector_ \in BOOLEAN
  /\ googleLayers_ = <<>>
  /\ googleCache_ = <<>>
  /\ vectorLayers_ = <<>>
  /\ vectorCache_ = <<>>
  /\ googleKeys = {}
  /\ vectorKeys = <<>>
  /\ heraldActive = {}
  /\ dataMap = {}
  /\ listenerKeys = 0
  /\ googleMapsIsActive_ = FALSE
  /\ ol3mapIsRenderered_ = FALSE
  /\ viewHeraldActive = FALSE
  /\ targetEl = {ol3mapEl}
  /\ controls \in {<<>>, <<otherControl>>}
  /\ mapTypeId = None
  /\ styles = None
  /\ toggled = FALSE
  /\ swaps = 0

\* ol3map.getLayers().push(l)
AddLayer(l) ==
  /\ Len(layers) < MaxLayers
  /\ \A i \in 1..Len(layers) : layers[i] # l
  /\ Watched(l) + listenerKeys <= MaxWatch
  /\ Commit(handleLayersAdd_([Cur EXCEPT !.layers = Append(@, l)], l, listenerKeys))

\* ol3map.getLayers().remove(l)
RemoveLayer(l) ==
  /\ \E i \in 1..Len(layers) : layers[i] = l
  /\ Commit(handleLayersRemove_(
              [Cur EXCEPT !.layers = splice(@, indexOf(layers, l))], l, listenerKeys))

\* layer.setVisible(~layer.getVisible())
SetVisible(l) ==
  LET s0 == [Cur EXCEPT !.visible[l] = ~@]
      n == Cardinality({k \in googleKeys : k[1] = l})
  IN Commit(fireVectorVisible(fireGoogleVisible(s0, n), l, vectorKeys))

\* Fault: a 'postrender' listener that sets the flag and does not call
\* toggleGoogleMaps_.
PostRender_NoToggle ==
  LET s0 == [Cur EXCEPT !.postrenderFired = TRUE]
  IN IF postrenderOnce
     THEN Commit([s0 EXCEPT !.postrenderOnce = FALSE,
                            !.ol3mapIsRenderered_ = TRUE])
     ELSE Commit(s0)

\* the ol3 map dispatches 'postrender'
PostRender ==
  LET s0 == [Cur EXCEPT !.postrenderFired = TRUE]
  IN IF postrenderOnce
     THEN Commit(toggleGoogleMaps_([s0 EXCEPT !.postrenderOnce = FALSE,
                                              !.ol3mapIsRenderered_ = TRUE]))
     ELSE Commit(s0)

\* view.setCenter(c) with c defined, while the view has no center
SetCenter ==
  /\ ~center
  /\ LET s0 == [Cur EXCEPT !.center = TRUE]
     IN IF centerOnce
        THEN Commit(toggleGoogleMaps_([s0 EXCEPT !.centerOnce = FALSE,
                                                 !.postrenderOnce = TRUE]))
        ELSE Commit(s0)

\* view.setCenter(undefined).  The once('change:center') listener is gone
\* by the time the view has a center, so no handler of the herald runs.
UnsetCenter ==
  /\ center
  /\ Commit([Cur EXCEPT !.center = FALSE])

\* olgm.herald.Layers.prototype.activate
HeraldActivate ==
  /\ listenerKeys < activations
  /\ \A i \in 1..Len(layers) : Watched(layers[i]) < MaxWatch
  /\ Commit(activate(Cur))

\* olgm.herald.Layers.prototype.deactivate
HeraldDeactivate == Commit(deactivate(Cur))

Next ==
  \/ \E l \in pool : AddLayer(l)
  \/ \E l \in pool : RemoveLayer(l)
  \/ \E l \in pool \cap VisLayers : SetVisible(l)
  \/ PostRender
  \/ SetCenter
  \/ UnsetCenter
  \/ HeraldActivate
  \/ HeraldDeactivate

Spec == Init /\ [][Next]_vars

\* ======================================================= the properties
\* The layer toggleGoogleMaps_ would find in the current state.
Winner == found(Cur)
InCollection(ls, l) == \E i \in 1..Len(ls) : ls[i] = l
Count(seq, x) == Cardinality({i \in 1..Len(seq) : seq[i] = x})
\* The places of the collection that hold a visible Google layer that is
\* in googleLayers_, and the layer at the highest of them.
Candidates ==
  {i \in 1..Len(layers) :
     /\ layers[i] \in GoogleLayers
     /\ visible[layers[i]]
     /\ \E j \in 1..Len(googleLayers_) : googleLayers_[j] = layers[i]}
TopMost == layers[CHOOSE i \in Candidates : \A j \in Candidates : j <= i]

\* C1: between handlers, the Google Maps element is a child of the target
\* element exactly when googleMapsIsActive_ is set, and the ol3 viewport is
\* a child of the target element exactly when it is not.
MountedIffActive ==
  /\ (gmapEl \in targetEl) <=> googleMapsIsActive_
  /\ (ol3mapEl \in targetEl) <=> ~googleMapsIsActive_

\* C1: the last handler deactivated Google Maps, after a render, and the
\* ol3 viewport is back in the target element.
MountedIffActive_Witness ==
  /\ ~googleMapsIsActive_
  /\ ol3mapIsRenderered_
  /\ swaps = 1
  /\ targetEl = {ol3mapEl}

\* C2: between handlers, Google Maps is active only if the collection holds
\* a Google layer that is visible and in the Google cache.
ActiveOnlyWithWinner ==
  googleMapsIsActive_ =>
    \E i \in 1..Len(layers) :
      /\ layers[i] \in GoogleLayers
      /\ visible[layers[i]]
      /\ \E j \in 1..Len(googleCache_) : googleCache_[j].layer = layers[i]

\* C3 as stated: with a visible Google layer watched, once the map has
\* fired 'postrender' and the view has a center, Google Maps is active.
ActiveOnceBothSignalsFired ==
  (postrenderFired /\ center /\ Winner # None) => googleMapsIsActive_

\* C3 as amended: the handler of the once('postrender') listener, when it
\* runs with a center defined and a visible Google layer watched, leaves
\* Google Maps active; the handler of the once('change:center') listener
\* only registers the 'postrender' listener and activates nothing.
ActiveOnRenderAfterCenter ==
  [][/\ (postrenderOnce /\ ~postrenderOnce' /\ center /\ Winner # None)
          => googleMapsIsActive_'
     /\ (centerOnce /\ ~centerOnce')
          => /\ postrenderOnce'
             /\ googleMapsIsActive_' = googleMapsIsActive_]_vars

\* C3: both one-shot listeners are gone, the center is defined, and the
\* last handler ran toggleGoogleMaps_ and activated Google Maps for G1.
ActiveOnRenderAfterCenter_Witness ==
  /\ googleMapsIsActive_
  /\ swaps = 1 /\ toggled
  /\ ~centerOnce /\ ~postrenderOnce /\ ol3mapIsRenderered_ /\ center
  /\ layers = <<"G1">> /\ listenerKeys = 1

\* C4: Google Maps goes from inactive to active only in a handler after
\* which the render flag is set and the center is defined, and that handler
\* swaps the DOM once, pushes the ol3 viewport once and activates the view
\* herald; a handler that starts and ends active swaps nothing; and the
\* 'postrender' handler that finds a center and a winner while inactive
\* activates with exactly one swap.
GatedFirstActivation ==
  [][/\ (~googleMapsIsActive_ /\ googleMapsIsActive_')
          => /\ ol3mapIsRenderered_' /\ center'
             /\ swaps' = 1
             /\ controls' = Append(controls, ol3mapEl)
             /\ targetEl' = {gmapEl}
             /\ viewHeraldActive'
     /\ (googleMapsIsActive_ /\ googleMapsIsActive_')
          => /\ swaps' = 0
             /\ controls' = controls
             /\ targetEl' = targetEl
             /\ viewHeraldActive' = viewHeraldActive
     /\ (postrenderOnce /\ ~postrenderOnce' /\ center /\ Winner # None
           /\ ~googleMapsIsActive_)
          => googleMapsIsActive_' /\ swaps' = 1]_vars

\* C4: Google Maps was activated by the last handler, and the ol3 viewport
\* sits once in the control stack, after the control that was there before.
GatedFirstActivation_Witness ==
  /\ googleMapsIsActive_
  /\ swaps = 1
  /\ controls = <<otherControl, ol3mapEl>>
  /\ viewHeraldActive

\* C5: after a handler that ran toggleGoogleMaps_, if the collection holds
\* a visible Google layer that is in googleLayers_, the map type id and the
\* styles of Google Maps are those of the highest such layer (styles null
\* when it has none).
TopMostWins ==
  (toggled /\ Candidates # {}) =>
    /\ mapTypeId = getMapTypeId(TopMost)
    /\ styles = getStyles(TopMost)

\* C5: G1 lies above G2, both visible and watched, and the last toggle
\* applied G1's map type and styles.
TopMostWins_Witness ==
  /\ toggled
  /\ layers = <<"G2", "G1">>
  /\ visible["G1"] /\ visible["G2"]
  /\ googleLayers_ = <<"G2", "G1">>
  /\ mapTypeId = "roadmap" /\ styles = "stylesG1"

\* C6: when Google Maps is active and a handler hides the winner or takes
\* it out of the collection while another visible watched Google layer is
\* left, Google Maps is active afterwards, the handler swapped nothing in
\* the DOM, left the control stack, the view herald and the vector layers
\* alone, and the map type and styles are the new winner's.
WinnerHandOver ==
  [][(/\ googleMapsIsActive_
      /\ Winner # None
      /\ Winner' # None
      /\ (~visible'[Winner] \/ ~InCollection(layers', Winner)))
       => /\ googleMapsIsActive_'
          /\ swaps' = 0
          /\ targetEl' = targetEl
          /\ controls' = controls
          /\ viewHeraldActive' = viewHeraldActive
          /\ opacity' = opacity
          /\ heraldActive' = heraldActive
          /\ mapTypeId' = getMapTypeId(Winner')
          /\ styles' = getStyles(Winner')]_vars

\* C6: G2, above G1 and below V1, has just been hidden while Google Maps
\* was active: G1 is the winner and nothing was swapped.
WinnerHandOver_Witness ==
  /\ googleMapsIsActive_
  /\ layers = <<"G1", "G2", "V1">>
  /\ listenerKeys = 1
  /\ ~visible["G2"] /\ visible["G1"]
  /\ toggled /\ swaps = 0
  /\ mapTypeId = "roadmap"

\* C7: between handlers, each cache is as long as its list of layers and
\* the item at every index holds the layer at that index of the list.
CachesAligned ==
  /\ Len(googleCache_) = Len(googleLayers_)
  /\ Len(vectorCache_) = Len(vectorLayers_)
  /\ \A i \in 1..Len(googleLayers_) : googleCache_[i].layer = googleLayers_[i]
  /\ \A i \in 1..Len(vectorLayers_) : vectorCache_[i].layer = vectorLayers_[i]

\* C7: G1 and V1 were each watched twice and deactivate() has unwatched
\* each once: one item of each is left, at the index of its layer.
CachesAligned_Witness ==
  /\ listenerKeys = 0
  /\ googleLayers_ = <<"G1">> /\ Len(googleCache_) = 1
  /\ vectorLayers_ = <<"V1">> /\ Len(vectorCache_) = 1

\* C8: a handler that unwatches a vector layer leaves the layer with the
\* opacity it had before the herald first watched it.
UnwatchRestoresOpacity ==
  [][\A l \in {v \in VectorLayers : getSource(v)} :
       Count(vectorLayers_', l) < Count(vectorLayers_, l)
         => opacity'[l] = InitialOpacity(l)]_vars

\* C9: while Google Maps is active, between handlers, every item of the
\* vector cache has its herald active and its layer at opacity 0 if the
\* layer is visible, and its herald inactive and its layer at the item's
\* saved opacity if it is not.
ActiveVectorItemsFollowVisibility ==
  googleMapsIsActive_ =>
    \A i \in 1..Len(vectorCache_) :
      LET item == vectorCache_[i]
      IN IF visible[item.layer]
         THEN ItemId(item) \in heraldActive /\ opacity[item.layer] = 0
         ELSE /\ ItemId(item) \notin heraldActive
              /\ opacity[item.layer] = item.opacity

\* C10: when deactivate() of an activated herald returns, both caches and
\* both lists are empty, no 'change:visible' key is live, no vector herald
\* is active and Google Maps is inactive.
DeactivateUnwatchesAll ==
  [][(listenerKeys > 0 /\ listenerKeys' = 0)
       => /\ googleLayers_' = <<>> /\ googleCache_' = <<>>
          /\ vectorLayers_' = <<>> /\ vectorCache_' = <<>>
          /\ googleKeys' = {} /\ vectorKeys' = <<>>
          /\ heraldActive' = {}
          /\ ~googleMapsIsActive_']_vars

\* The vector layers that have a source.
Sourced == {v \in VectorLayers : getSource(v)}
\* The identities of the items of a cache.
ItemsOf(cache) == {ItemId(cache[i]) : i \in 1..Len(cache)}

\* C11: once the herald is activated, no call (a further activate()
\* included) registers a second pair of collection listeners or tracks a
\* layer a second time in either list.
RedundantActivateIsNoOp ==
  [][listenerKeys >= 1 =>
       /\ listenerKeys' <= 1
       /\ \A l \in Layers : /\ Count(googleLayers_', l) <= 1
                            /\ Count(vectorLayers_', l) <= 1]_vars

TrackedMatchesCollection ==
  listenerKeys >= 1 =>
    /\ \A l \in GoogleLayers : Count(googleLayers_, l) = Count(layers, l)
    /\ \A l \in Layers : Count(vectorLayers_, l) <= Count(layers, l)
    /\ \A i \in 1..Len(vectorLayers_) : vectorLayers_[i] \in VectorLayers
    /\ Len(googleCache_) = Len(googleLayers_)
    /\ Len(vectorCache_) = Len(vectorLayers_)

\* A layer the herald holds no cache item for: never watched, already
\* unwatched, a vector layer without a source or with vector watching
\* off, or a layer of another kind.
Untracked(l) ==
  \/ l \in GoogleLayers /\ Count(googleLayers_, l) = 0
  \/ l \in VectorLayers /\ (Count(vectorLayers_, l) = 0 \/ ~watchVector_)
  \/ l \in OtherLayers
\* Everything the herald keeps or touches, the collection aside.
heraldState ==
  <<googleLayers_, googleCache_, vectorLayers_, vectorCache_, googleKeys,
    vectorKeys, heraldActive, dataMap, listenerKeys, googleMapsIsActive_,
    viewHeraldActive, targetEl, controls, mapTypeId, styles, opacity>>

\* C14: in every reachable state, unwatchLayer_ of an untracked layer
\* returns the state unchanged and does not run toggleGoogleMaps_; and a
\* handler that removes an untracked layer from the collection leaves the
\* caches, lists, subscriptions, switch, DOM, map type, styles and
\* opacities as they were, without a toggle or a DOM swap.
UnwatchUntrackedIsNoOp ==
  /\ [](\A l \in Layers : Untracked(l) => unwatchLayer_(Cur, l) = Cur)
  /\ [][\A l \in Layers :
          (InCollection(layers, l) /\ ~InCollection(layers', l) /\ Untracked(l))
            => (heraldState' = heraldState /\ ~toggled' /\ swaps' = 0)]_vars

\* C14: a deactivated herald that tracks nothing, with a Google layer, a
\* vector layer without a source and a layer of another kind in the
\* collection: deactivate() unwatches each of the three.
UnwatchUntrackedIsNoOp_Witness ==
  /\ listenerKeys = 0 /\ layers = <<"G1", "VN", "T">>
  /\ googleLayers_ = <<>> /\ vectorLayers_ = <<>>
  /\ ol3mapIsRenderered_ /\ center

\* C15: between handlers, every layer of vectorLayers_ is a vector layer
\* with a source and vector watching is on; a vector layer without a
\* source, and every vector layer when vector watching is off, has the
\* opacity it started with and no overlay and no active herald; and a
\* handler that adds such a layer, or a layer of another kind, to the
\* collection leaves the caches, lists, subscriptions, switch and
\* opacities as they were.
VectorWatchGated ==
  /\ [](/\ \A i \in 1..Len(vectorLayers_) :
             vectorLayers_[i] \in Sourced /\ watchVector_
        /\ \A l \in VectorLayers :
             (~watchVector_ \/ ~getSource(l)) =>
               /\ opacity[l] = InitialOpacity(l)
               /\ \A n \in 1..(MaxWatch + 1) :
                    <<l, n>> \notin (dataMap \cup heraldActive))
  /\ [][\A l \in Layers :
          (/\ ~InCollection(layers, l) /\ InCollection(layers', l)
           /\ \/ l \in OtherLayers
              \/ l \in VectorLayers /\ (~watchVector_ \/ ~getSource(l)))
            => heraldState' = heraldState]_vars

\* C15: an activated herald with vector watching on and Google Maps
\* active, after the vector layer without a source and the layer of
\* another kind were added: the vector cache is empty.
VectorWatchGated_Witness ==
  /\ listenerKeys = 1 /\ layers = <<"G1", "VN", "T">>
  /\ googleMapsIsActive_ /\ watchVector_
  /\ vectorCache_ = <<>> /\ dataMap = {}

\* C16: a handler that changes the visibility of a vector layer with a
\* source, or adds it to or removes it from the collection, leaves the
\* switch, the view herald, the children of the target element, the
\* control stack, the map type, the styles, the Google list, cache and
\* subscriptions, and the opacity and herald of every other vector layer
\* as they were, and runs neither toggleGoogleMaps_ nor a DOM swap.
VectorEventsFramed ==
  [][\A v \in Sourced :
       (\/ visible'[v] # visible[v]
        \/ InCollection(layers', v) # InCollection(layers, v))
         => /\ googleMapsIsActive_' = googleMapsIsActive_
            /\ viewHeraldActive' = viewHeraldActive
            /\ targetEl' = targetEl /\ controls' = controls
            /\ mapTypeId' = mapTypeId /\ styles' = styles
            /\ googleLayers_' = googleLayers_ /\ googleCache_' = googleCache_
            /\ googleKeys' = googleKeys
            /\ ~toggled' /\ swaps' = 0
            /\ \A w \in VectorLayers \ {v} :
                 /\ opacity'[w] = opacity[w]
                 /\ \A n \in 1..(MaxWatch + 1) :
                      (<<w, n>> \in heraldActive') = (<<w, n>> \in heraldActive)]_vars

\* C16: Google Maps is active with V1 and V2 cached; V1 was hidden and
\* has its saved opacity back, V2 is still at opacity 0 with its herald
\* active, and the last handler ran no toggle.
VectorEventsFramed_Witness ==
  /\ googleMapsIsActive_ /\ ~toggled
  /\ Len(vectorCache_) = 2
  /\ ~visible["V1"] /\ opacity["V1"] = InitialOpacity("V1")
  /\ visible["V2"] /\ opacity["V2"] = 0
  /\ heraldActive = {<<"V2", 1>>}

\* C17: a handler that takes Google Maps from active to inactive removes
\* the ol3 element from the top-left control stack and leaves every other
\* control on it.
DeactivationRemovesOl3Element ==
  [][(googleMapsIsActive_ /\ ~googleMapsIsActive_')
       => /\ Count(controls', ol3mapEl) = Count(controls, ol3mapEl) - 1
          /\ Count(controls', otherControl) = Count(controls, otherControl)]_vars

InactiveMeansRestored ==
  ~googleMapsIsActive_ =>
    /\ heraldActive = {}
    /\ \A i \in 1..Len(vectorCache_) :
         opacity[vectorCache_[i].layer] = vectorCache_[i].opacity
====
